---- MODULE Spec2Model ----
(***************************************************************************)
(* forecast_to_bq.py: per-city daily forecasts read from a feature view,   *)
(* forecast with SARIMAX (or a trailing-mean fallback) and written to a    *)
(* destination table that is recreated on every run.                       *)
(*                                                                         *)
(* Numbers.  A pandas cell is either missing (NaN / None / text that       *)
(* to_numeric coerces to NaN) or a number: Missing is <<>>, the number v   *)
(* is <<v>>.  Forecast values are exact rationals kept in fixed point, in  *)
(* units of 1/Unit session, so that a mean over 1..TailDays values and    *)
(* the factors 0.6 and 1.4 are computed without rounding.  Dates are day   *)
(* numbers; BadDate is a date that pd.to_datetime coerces to NaT.          *)
(*                                                                         *)
(* statsmodels is a library, not part of this program: what it does with   *)
(* one city's series (raise, or return a forecast) is the input `fit`,     *)
(* fixed per series, so that a second run on the same source sees the      *)
(* same answer.                                                            *)
(***************************************************************************)
EXTENDS Integers, Sequences, FiniteSets, TLC

VARIABLES
    source,     \* rows of v_city_daily_features, in the view's ORDER BY order
    H,          \* args.horizon
    fit,        \* per city: what statsmodels does with that city's series
    table,      \* the destination table forecasts_daily
    pc,         \* position of main()
    run,        \* which invocation of the script this is
    cdf,        \* main's cdf
    todo,       \* the groups of cdf.groupby not yet iterated
    g,          \* the prepared frame of the city processed last
    results,    \* main's results
    fc_all,     \* main's fc_all
    chk,        \* the sanity query's answer
    calls,      \* the client calls and loop iterations of this run, in order
    table0,     \* the destination table when this run started
    prev        \* outcome of the previous run: its final pc and table

vars == <<source, H, fit, table, pc, run, cdf, todo, g, results, fc_all, chk,
          calls, table0, prev>>

----------------------------------------------------------------------------
\* Bounds of the model.
MaxRows == 3
MaxDay == 9
MaxH == 2

\* Program constants.
TailDays == 7
MinHistory == 14
Unit == 10 * 420

Missing == <<>>
Num(v) == <<v>>
Val(x) == x[1]
BadDate == 0
MODEL == "sarimax_city"
Cities == {"A", "B"}
\* A row whose station_city is NULL: groupby drops it.
NoCity == "-"

MaxOf(S) == CHOOSE x \in S : \A y \in S : y <= x
MinOf(S) == CHOOSE x \in S : \A y \in S : x <= y

RECURSIVE SumSeq(_)
SumSeq(s) == IF s = <<>> THEN 0 ELSE Head(s) + SumSeq(Tail(s))

RECURSIVE Flatten(_)
Flatten(ss) == IF ss = <<>> THEN <<>> ELSE Head(ss) \o Flatten(Tail(ss))

\* The order of the city names (NULL sorts first in ORDER BY).
CityRank(c) == IF c = NoCity THEN 0 ELSE IF c = "A" THEN 1 ELSE 2

\* The elements of a set of cities as a sequence, ascending: the order in which
\* groupby (sort=True) yields its groups.
RECURSIVE SortCities(_)
SortCities(S) ==
    IF S = {} THEN <<>>
    ELSE LET c == CHOOSE x \in S : \A y \in S : CityRank(x) <= CityRank(y)
         IN  <<c>> \o SortCities(S \ {c})

----------------------------------------------------------------------------
\* Series preparation: main, lines 118-127.

\* cdf[cdf["d"].notna()]
DropBadDates(rows) == SelectSeq(rows, LAMBDA r : r.d # BadDate)

CityRows(rows, city) == SelectSeq(rows, LAMBDA r : r.city = city)

DatesOf(rows) == {rows[i].d : i \in 1..Len(rows)}

\* asfreq("D") reindexes, and a reindex of an index with duplicate labels raises.
HasDuplicateDates(rows) ==
    \E i, j \in 1..Len(rows) : i # j /\ rows[i].d = rows[j].d

EmptyRow(d) ==
    [d |-> d, sessions |-> Missing, is_weekend |-> Missing, ma7_sessions |-> Missing]

\* sort_values("d").set_index("d").asfreq("D"): one row per day of [min, max],
\* the days without a source row all-missing.
AsFreq(rows) ==
    LET lo == MinOf(DatesOf(rows))
        hi == MaxOf(DatesOf(rows))
    IN  [i \in 1..(hi - lo + 1) |->
            LET d == lo + i - 1
            IN  IF d \in DatesOf(rows)
                THEN LET r == rows[CHOOSE k \in 1..Len(rows) : rows[k].d = d]
                     IN  [d |-> d, sessions |-> r.sessions,
                          is_weekend |-> r.is_weekend,
                          ma7_sessions |-> r.ma7_sessions]
                ELSE EmptyRow(d)]

FillZero(col) == [i \in 1..Len(col) |-> IF col[i] = Missing THEN Num(0) ELSE col[i]]

FFill(col) ==
    [i \in 1..Len(col) |->
        LET J == {j \in 1..i : col[j] # Missing}
        IN  IF J = {} THEN Missing ELSE col[MaxOf(J)]]

BFill(col) ==
    [i \in 1..Len(col) |->
        LET J == {j \in i..Len(col) : col[j] # Missing}
        IN  IF J = {} THEN Missing ELSE col[MinOf(J)]]

FillFeatureForwardOnly(col) == FFill(col)

FillFeature(col) == BFill(FFill(col))

Column(frame, name) ==
    [i \in 1..Len(frame) |->
        CASE name = "sessions" -> frame[i].sessions
          [] name = "is_weekend" -> frame[i].is_weekend
          [] OTHER -> frame[i].ma7_sessions]

Prepare(rows) ==
    LET f == AsFreq(rows)
        s == FillZero(Column(f, "sessions"))
        w == FillFeature(Column(f, "is_weekend"))
        m == FillFeature(Column(f, "ma7_sessions"))
    IN  [i \in 1..Len(f) |->
            [d |-> f[i].d, sessions |-> s[i], is_weekend |-> w[i],
             ma7_sessions |-> m[i]]]

----------------------------------------------------------------------------
\* forecast_city, lines 48-91.

\* Monday is 0; day 1 of the model's calendar is a Monday.
Weekday(d) == (d - 1) % 7

LastN(s, n) == SubSeq(s, IF Len(s) > n THEN Len(s) - n + 1 ELSE 1, Len(s))

MeanOfAll(y) == IF Len(y) = 0 THEN 0 ELSE (Unit * SumSeq(y)) \div Len(y)

\* float(y.tail(7).mean()) if len(y) > 0 else 0.0, in units of 1/Unit.
TailMean(y) ==
    IF Len(y) = 0 THEN 0
    ELSE LET t == LastN(y, TailDays) IN (Unit * SumSeq(t)) \div Len(t)

\* y = df_city["sessions"].astype(float).fillna(0.0)
SessionsOf(df_city) ==
    [i \in 1..Len(df_city) |->
        IF df_city[i].sessions = Missing THEN 0 ELSE Val(df_city[i].sessions)]

FutureIdxFromLast(df_city, horizon) ==
    [i \in 1..horizon |-> df_city[Len(df_city)].d + i - 1]

\* pd.date_range(df_city.index.max() + 1 day, periods=horizon, freq="D")
FutureIdx(df_city, horizon) == [i \in 1..horizon |-> df_city[Len(df_city)].d + i]

\* Xf: is_weekend from the calendar, ma7_sessions held at the trailing mean.
FutureExog(df_city, horizon) ==
    LET idx == FutureIdx(df_city, horizon)
    IN  [i \in 1..horizon |->
            [d |-> idx[i],
             is_weekend |-> IF Weekday(idx[i]) >= 5 THEN 1 ELSE 0,
             ma7_sessions |-> TailMean(SessionsOf(df_city))]]

\* What statsmodels does is not in this repository: `outcome` is its answer for
\* this series, either an exception or the mean and the interval of step 1
\* (the interval widens by one session a step; any of them may be NaN).
\* SARIMAX rejects an exog with missing values, and indexes its forecast by
\* the days that follow the index of y.
ExogHasMissing(df_city) ==
    \E i \in 1..Len(df_city) :
        df_city[i].is_weekend = Missing \/ df_city[i].ma7_sessions = Missing

Shift(x, k) == IF x = Missing THEN Missing ELSE Num(Val(x) + k)

TryFit(df_city, Xf, horizon, outcome) ==
    IF ~outcome.ok \/ ExogHasMissing(df_city)
    THEN [ok |-> FALSE, rows |-> <<>>]
    ELSE [ok |-> TRUE,
          rows |-> [i \in 1..horizon |->
                      [d |-> df_city[Len(df_city)].d + i,
                       yhat |-> outcome.mean,
                       yhat_lower |-> Shift(outcome.lo, 0 - (i - 1) * Unit),
                       yhat_upper |-> Shift(outcome.hi, (i - 1) * Unit)]]]

FallbackSwapped(df_city, horizon) ==
    LET ybar == TailMean(SessionsOf(df_city))
        hi == (14 * ybar) \div 10
        idx == FutureIdx(df_city, horizon)
    IN  [i \in 1..horizon |->
            [d |-> idx[i],
             yhat |-> Num(ybar),
             yhat_lower |-> Num(IF hi > 0 THEN hi ELSE 0),
             yhat_upper |-> Num((6 * ybar) \div 10)]]

\* The except branch: 7-day mean with a +-40% band.
Fallback(df_city, horizon) ==
    LET ybar == TailMean(SessionsOf(df_city))
        lo == (6 * ybar) \div 10
        idx == FutureIdx(df_city, horizon)
    IN  [i \in 1..horizon |->
            [d |-> idx[i],
             yhat |-> Num(ybar),
             yhat_lower |-> Num(IF lo > 0 THEN lo ELSE 0),
             yhat_upper |-> Num((14 * ybar) \div 10)]]

ClipMissingOnly(x) == IF x = Missing THEN Num(0) ELSE x

\* pd.to_numeric(..., errors="coerce").fillna(0.0).clip(lower=0.0)
Clip(x) == IF x = Missing THEN Num(0) ELSE IF Val(x) < 0 THEN Num(0) ELSE x

ClipRows(out) ==
    [i \in 1..Len(out) |->
        [d |-> out[i].d, yhat |-> Clip(out[i].yhat),
         yhat_lower |-> Clip(out[i].yhat_lower),
         yhat_upper |-> Clip(out[i].yhat_upper)]]

ForecastCityNoCatch(df_city, horizon, outcome) ==
    LET r == TryFit(df_city, FutureExog(df_city, horizon), horizon, outcome)
    IN  ClipRows(IF r.ok THEN r.rows ELSE <<>>)

ForecastCity(df_city, horizon, outcome) ==
    LET r == TryFit(df_city, FutureExog(df_city, horizon), horizon, outcome)
    IN  ClipRows(IF r.ok THEN r.rows ELSE Fallback(df_city, horizon))

----------------------------------------------------------------------------
\* main, lines 94-179.

\* fc.insert(0, "city", str(city)); fc["model"] = MODEL
Tag(fc, city) ==
    [i \in 1..Len(fc) |->
        [city |-> city, d |-> fc[i].d, yhat |-> fc[i].yhat,
         yhat_lower |-> fc[i].yhat_lower, yhat_upper |-> fc[i].yhat_upper,
         model |-> MODEL]]

\* pd.to_numeric(..., errors="coerce").astype(float).fillna(0.0)
NumericOrZero(x) == IF x = Missing THEN Num(0) ELSE x

ConcatLast(res) ==
    LET all == res[Len(res)]
    IN  [i \in 1..Len(all) |->
            [city |-> all[i].city, d |-> all[i].d,
             yhat |-> NumericOrZero(all[i].yhat),
             yhat_lower |-> NumericOrZero(all[i].yhat_lower),
             yhat_upper |-> NumericOrZero(all[i].yhat_upper),
             model |-> all[i].model]]

\* pd.concat(results, ignore_index=True) and the dtype clean-up before upload.
Concat(res) ==
    LET all == Flatten(res)
    IN  [i \in 1..Len(all) |->
            [city |-> all[i].city, d |-> all[i].d,
             yhat |-> NumericOrZero(all[i].yhat),
             yhat_lower |-> NumericOrZero(all[i].yhat_lower),
             yhat_upper |-> NumericOrZero(all[i].yhat_upper),
             model |-> all[i].model]]

\* if cdf.empty / if not results
CdfEmpty(frame) == frame = <<>>
NoResultsNever(res) == FALSE
NoResults(res) == res = <<>>

\* The destination table and the three client calls that write it.
NoTable == [exists |-> FALSE, rows |-> <<>>]
DeleteTableKeeps(t) == t
DeleteTable(t) == NoTable
CreateTable(t) == [exists |-> TRUE, rows |-> <<>>]
LoadTable(t, rows) == [exists |-> TRUE, rows |-> rows]

\* SELECT city, MIN(d), MAX(d), COUNT(*) ... GROUP BY city ORDER BY city
SanityCheck(t) ==
    LET cs == SortCities({t.rows[i].city : i \in 1..Len(t.rows)})
    IN  [k \in 1..Len(cs) |->
            LET ds == {t.rows[i].d : i \in {j \in 1..Len(t.rows) : t.rows[j].city = cs[k]}}
            IN  [city |-> cs[k], min_d |-> MinOf(ds), max_d |-> MaxOf(ds),
                 rows |-> Cardinality({j \in 1..Len(t.rows) : t.rows[j].city = cs[k]})]]

Terminal == {"done", "exit0", "crashed"}

\* client.query(sql).to_dataframe()
ReadSource ==
    /\ pc = "start"
    /\ cdf' = source
    /\ calls' = Append(calls, <<"query", "features">>)
    /\ pc' = "read"
    /\ UNCHANGED <<source, H, fit, table, run, todo, g, results, fc_all, chk,
                   table0, prev>>

\* if cdf.empty: sys.exit(0)
ExitNoRows ==
    /\ pc = "read"
    /\ CdfEmpty(cdf)
    /\ pc' = "exit0"
    /\ UNCHANGED <<source, H, fit, table, run, cdf, todo, g, results, fc_all,
                   chk, calls, table0, prev>>

\* Parse the dates, drop the rows without one, group by station_city.
FilterDates ==
    /\ pc = "read"
    /\ ~CdfEmpty(cdf)
    /\ cdf' = DropBadDates(cdf)
    /\ todo' = SortCities({cdf'[i].city : i \in 1..Len(cdf')} \ {NoCity})
    /\ results' = <<>>
    /\ pc' = "loop"
    /\ UNCHANGED <<source, H, fit, table, run, g, fc_all, chk, calls, table0, prev>>

\* One iteration of the loop over the groups: prepare, forecast, tag, append.
ProcessCity ==
    /\ pc = "loop"
    /\ todo # <<>>
    /\ LET city == Head(todo)
           rows == CityRows(cdf, city)
       IN  /\ ~HasDuplicateDates(rows)
           /\ g' = Prepare(rows)
           /\ LET fc == IF Len(g') < MinHistory
                        THEN ForecastCity(g', H, fit[city])
                        ELSE ForecastCity(g', H, fit[city])
              IN  results' = Append(results, Tag(fc, city))
           /\ calls' = Append(calls, <<"city", city>>)
    /\ todo' = Tail(todo)
    /\ UNCHANGED <<source, H, fit, table, pc, run, cdf, fc_all, chk, table0, prev>>

\* asfreq raises on a group with two rows of the same date; nothing catches it.
PrepareRaises ==
    /\ pc = "loop"
    /\ todo # <<>>
    /\ HasDuplicateDates(CityRows(cdf, Head(todo)))
    /\ pc' = "crashed"
    /\ UNCHANGED <<source, H, fit, table, run, cdf, todo, g, results, fc_all,
                   chk, calls, table0, prev>>

\* if not results: sys.exit(0)
ExitNoResults ==
    /\ pc = "loop"
    /\ todo = <<>>
    /\ NoResults(results)
    /\ pc' = "exit0"
    /\ UNCHANGED <<source, H, fit, table, run, cdf, todo, g, results, fc_all,
                   chk, calls, table0, prev>>

\* fc_all = pd.concat(results) (which raises on an empty list) and clean-up.
ConcatResults ==
    /\ pc = "loop"
    /\ todo = <<>>
    /\ ~NoResults(results)
    /\ IF results = <<>>
       THEN pc' = "crashed" /\ UNCHANGED fc_all
       ELSE pc' = "delete" /\ fc_all' = Concat(results)
    /\ UNCHANGED <<source, H, fit, table, run, cdf, todo, g, results, chk,
                   calls, table0, prev>>

\* client.delete_table(table_id, not_found_ok=True)
DeleteStep ==
    /\ pc = "delete"
    /\ table' = DeleteTable(table)
    /\ calls' = Append(calls, <<"sink", "delete_table">>)
    /\ pc' = "create"
    /\ UNCHANGED <<source, H, fit, run, cdf, todo, g, results, fc_all, chk,
                   table0, prev>>

\* client.create_table(...): Conflict if the table exists.
CreateStep ==
    /\ pc = "create"
    /\ calls' = Append(calls, <<"sink", "create_table">>)
    /\ IF table.exists
       THEN pc' = "crashed" /\ UNCHANGED table
       ELSE pc' = "load" /\ table' = CreateTable(table)
    /\ UNCHANGED <<source, H, fit, run, cdf, todo, g, results, fc_all, chk,
                   table0, prev>>

\* client.load_table_from_dataframe(fc_all, ..., WRITE_TRUNCATE).result()
LoadStep ==
    /\ pc = "load"
    /\ table' = LoadTable(table, fc_all)
    /\ calls' = Append(calls, <<"sink", "load_table">>)
    /\ pc' = "check"
    /\ UNCHANGED <<source, H, fit, run, cdf, todo, g, results, fc_all, chk,
                   table0, prev>>

\* The sanity query on the destination table.
CheckStep ==
    /\ pc = "check"
    /\ chk' = SanityCheck(table)
    /\ calls' = Append(calls, <<"query", "destination">>)
    /\ pc' = "done"
    /\ UNCHANGED <<source, H, fit, table, run, cdf, todo, g, results, fc_all,
                   table0, prev>>

\* The script is started again on the same source and configuration: a new
\* process, whose only inheritance is the destination table.
Rerun ==
    /\ pc \in Terminal
    /\ run = 1
    /\ run' = 2
    /\ prev' = [pc |-> pc, table |-> table]
    /\ table0' = table
    /\ pc' = "start"
    /\ cdf' = <<>>
    /\ todo' = <<>>
    /\ g' = <<>>
    /\ results' = <<>>
    /\ fc_all' = <<>>
    /\ chk' = <<>>
    /\ calls' = <<>>
    /\ UNCHANGED <<source, H, fit, table>>

Next ==
    \/ ReadSource
    \/ ExitNoRows
    \/ FilterDates
    \/ ProcessCity
    \/ PrepareRaises
    \/ ExitNoResults
    \/ ConcatResults
    \/ DeleteStep
    \/ CreateStep
    \/ LoadStep
    \/ CheckStep
    \/ Rerun

----------------------------------------------------------------------------
\* Inputs.

Raise == [ok |-> FALSE, mean |-> Missing, lo |-> Missing, hi |-> Missing]
Fitted(m, l, h) == [ok |-> TRUE, mean |-> m, lo |-> l, hi |-> h]

\* An interval below zero, an ordinary one, one wholly negative, one all NaN.
FitOutcomes ==
    {Raise,
     Fitted(Num(Unit), Num(0 - 2 * Unit), Num(4 * Unit)),
     Fitted(Num(5 * Unit), Num(3 * Unit), Num(8 * Unit)),
     Fitted(Num(0 - Unit), Num(0 - 3 * Unit), Num(0 - 1)),
     Fitted(Missing, Missing, Missing)}

Days == {BadDate, 1, 2, MaxDay}

\* What the destination holds before the first run: nothing, or older rows.
OldRow ==
    [city |-> "B", d |-> 1, yhat |-> Num(Unit), yhat_lower |-> Num(0),
     yhat_upper |-> Num(2 * Unit), model |-> "old"]
Tables == {NoTable, [exists |-> TRUE, rows |-> <<OldRow, OldRow>>]}

\* ORDER BY station_city, d
Ordered(s) ==
    \A i \in 1..(Len(s) - 1) :
        \/ CityRank(s[i].city) < CityRank(s[i + 1].city)
        \/ s[i].city = s[i + 1].city /\ s[i].d <= s[i + 1].d

\* The source holds at most MaxRows rows, in the view's order.
InitWith(RowSet, Fits, Horizons, Tbls) ==
    /\ \E n \in 0..MaxRows : \E s \in [1..n -> RowSet] : Ordered(s) /\ source = s
    /\ H \in Horizons
    /\ fit \in Fits
    /\ table \in Tbls
    /\ table0 = table
    /\ pc = "start"
    /\ run = 1
    /\ cdf = <<>>
    /\ todo = <<>>
    /\ g = <<>>
    /\ results = <<>>
    /\ fc_all = <<>>
    /\ chk = <<>>
    /\ calls = <<>>
    /\ prev = [pc |-> "none", table |-> NoTable]

\* The whole pipeline over two cities.
Init ==
    InitWith([city : Cities \cup {NoCity}, d : {BadDate, 1, 2},
              sessions : {Missing, Num(4)},
              is_weekend : {Num(0)}, ma7_sessions : {Num(4)}],
             [Cities -> {Raise, Fitted(Num(Unit), Num(0 - 2 * Unit), Num(4 * Unit))}],
             {MaxH}, Tables)

Spec == Init /\ [][Next]_vars

\* forecast_city over the sessions, the dates and the answers of statsmodels.
InitForecast ==
    InitWith([city : {"A"}, d : Days, sessions : {Missing, Num(0 - 3), Num(4)},
              is_weekend : {Num(0)}, ma7_sessions : {Num(4)}],
             {[c \in Cities |-> IF c = "A" THEN o ELSE Raise] : o \in FitOutcomes},
             1..MaxH, {NoTable})

SpecForecast == InitForecast /\ [][Next]_vars

\* The preparation over the feature columns.
InitPrepare ==
    InitWith([city : {"A"}, d : {BadDate, 1, 3}, sessions : {Missing, Num(4)},
              is_weekend : {Missing, Num(1)},
              ma7_sessions : {Missing, Num(4)}],
             {[c \in Cities |-> o] : o \in {Raise, Fitted(Num(Unit), Num(0), Num(4 * Unit))}},
             {MaxH}, {NoTable})

SpecPrepare == InitPrepare /\ [][Next]_vars

----------------------------------------------------------------------------
\* What the properties speak of, read off the source rows and the run's state.

\* The rows of a city that survive date parsing.
ValidRows(c) == SelectSeq(source, LAMBDA r : r.city = c /\ r.d # BadDate)

\* The cities with at least one historical row, and those among them that the
\* preparation accepts.
Usable == {c \in Cities : ValidRows(c) # <<>>}
WellFormed(c) == c \in Usable /\ ~HasDuplicateDates(ValidRows(c))
Groups == SortCities(Usable)

FirstDate(c) == MinOf({ValidRows(c)[i].d : i \in 1..Len(ValidRows(c))})
LastDate(c) == MaxOf({ValidRows(c)[i].d : i \in 1..Len(ValidRows(c))})

\* The cities the loop has gone through in this run, and the rows it kept for one.
Processed == {calls[i][2] : i \in {j \in 1..Len(calls) : calls[j][1] = "city"}}
ResultRows(c) == SelectSeq(Flatten(results), LAMBDA r : r.city = c)
RowsOf(rows, c) == SelectSeq(rows, LAMBDA r : r.city = c)

\* The cleaned sessions of city c on day d: 0 on a day without a row or a value.
SessionsOn(c, d) ==
    LET I == {i \in 1..Len(ValidRows(c)) : ValidRows(c)[i].d = d}
    IN  IF I = {} THEN 0
        ELSE LET r == ValidRows(c)[CHOOSE i \in I : TRUE]
             IN  IF r.sessions = Missing THEN 0 ELSE Val(r.sessions)

RECURSIVE SumDays(_, _, _)
SumDays(c, lo, hi) == IF lo > hi THEN 0 ELSE SessionsOn(c, lo) + SumDays(c, lo + 1, hi)

\* The mean of the trailing 7 cleaned values (of all of them when fewer), in
\* units of 1/Unit.
Ybar(c) ==
    LET hi == LastDate(c)
        lo == IF hi - FirstDate(c) + 1 > TailDays THEN hi - TailDays + 1 ELSE FirstDate(c)
    IN  (Unit * SumDays(c, lo, hi)) \div (hi - lo + 1)

Max0(v) == IF v > 0 THEN v ELSE 0

\* The fit or the forecast of city c raises: statsmodels fails on the series, or
\* a regressor has no value at all.
FitFails(c) ==
    \/ ~fit[c].ok
    \/ \A i \in 1..Len(ValidRows(c)) : ValidRows(c)[i].is_weekend = Missing
    \/ \A i \in 1..Len(ValidRows(c)) : ValidRows(c)[i].ma7_sessions = Missing

WriteStage == {"delete", "create", "load", "check", "done"}

NonNegative(rows) ==
    \A i \in 1..Len(rows) :
        /\ rows[i].yhat # Missing /\ Val(rows[i].yhat) >= 0
        /\ rows[i].yhat_lower # Missing /\ Val(rows[i].yhat_lower) >= 0
        /\ rows[i].yhat_upper # Missing /\ Val(rows[i].yhat_upper) >= 0

----------------------------------------------------------------------------
\* C1: for every city forecast_city is called for, it returns exactly H rows,
\* dated the H consecutive days that follow the city's last historical date,
\* on the model path and on the fallback path alike.
C1HorizonDates ==
    \A c \in Processed :
        /\ Len(ResultRows(c)) = H
        /\ \A i \in 1..H : ResultRows(c)[i].d = LastDate(c) + i

C1Witness ==
    \E c \in Processed :
        /\ ~FitFails(c)
        /\ H = MaxH
        /\ LastDate(c) = MaxDay
        /\ ResultRows(c)[H].d = MaxDay + MaxH

\* C2: every row handed to the sink, and every row the sink then holds, has
\* yhat, yhat_lower and yhat_upper present and >= 0.
C2NonNegative ==
    /\ pc \in WriteStage => NonNegative(fc_all)
    /\ pc \in {"check", "done"} => NonNegative(table.rows)

C2Witness ==
    /\ pc = "done"
    /\ \E c \in Processed :
        /\ ~FitFails(c)
        /\ fit[c].lo # Missing
        /\ Val(fit[c].lo) < 0
        /\ RowsOf(table.rows, c)[1].yhat_lower = Num(0)

\* C3 as stated: on the fallback path every row has yhat = ybar,
\* yhat_lower = max(0, 0.6 ybar), yhat_upper = 1.4 ybar.
C3FallbackUnclipped ==
    \A c \in Processed :
        FitFails(c) =>
            \A i \in 1..Len(ResultRows(c)) :
                /\ ResultRows(c)[i].yhat = Num(Ybar(c))
                /\ ResultRows(c)[i].yhat_lower = Num(Max0((6 * Ybar(c)) \div 10))
                /\ ResultRows(c)[i].yhat_upper = Num((14 * Ybar(c)) \div 10)

\* C3 as amended: on the fallback path each of the H rows has
\* yhat = max(0, ybar), yhat_lower = max(0, 0.6 ybar), yhat_upper = max(0, 1.4 ybar),
\* ybar the mean of the trailing 7 cleaned sessions values.
C3FallbackClipped ==
    \A c \in Processed :
        FitFails(c) =>
            /\ Len(ResultRows(c)) = H
            /\ \A i \in 1..H :
                /\ ResultRows(c)[i].yhat = Num(Max0(Ybar(c)))
                /\ ResultRows(c)[i].yhat_lower = Num(Max0((6 * Ybar(c)) \div 10))
                /\ ResultRows(c)[i].yhat_upper = Num(Max0((14 * Ybar(c)) \div 10))

C3Witness ==
    \E c \in Processed :
        /\ FitFails(c)
        /\ LastDate(c) - FirstDate(c) + 1 > TailDays
        /\ Ybar(c) < 0
        /\ SessionsOn(c, FirstDate(c)) > 0

\* C4: a fit or forecast that raises is recovered inside forecast_city: the city
\* still gets its H rows, the run is never aborted by it (the only abort before
\* the write stage is the preparation of a group), and every city with a
\* historical row has its H rows in the destination of a run that completes.
C4FitFailureRecovered ==
    /\ \A c \in Processed : FitFails(c) => Len(ResultRows(c)) = H
    /\ pc = "crashed" => /\ todo # <<>>
                         /\ HasDuplicateDates(ValidRows(Head(todo)))
    /\ pc \in {"check", "done"} =>
          \A c \in Usable : Len(RowsOf(table.rows, c)) = H

C4Witness ==
    /\ pc = "done"
    /\ H = MaxH
    /\ \E c \in Processed : ~fit[c].ok /\ Len(RowsOf(table.rows, c)) = MaxH

\* C5: a run that reaches the write stage has read the feature source once,
\* before the loop, has gone through every group one after another with no
\* client call in between, and only then called the sink: delete, create, and
\* one load of the complete concatenated table.  At every moment the calls made
\* so far are a prefix of that sequence.
ExpectedCalls ==
    <<(<<"query", "features">>)>>
        \o [k \in 1..Len(Groups) |-> <<"city", Groups[k]>>]
        \o << <<"sink", "delete_table">>, <<"sink", "create_table">>,
              <<"sink", "load_table">>, <<"query", "destination">> >>

CompleteTable(rows) ==
    /\ Len(rows) = H * Len(Groups)
    /\ \A k \in 1..Len(Groups) : \A i \in 1..H :
          /\ rows[(k - 1) * H + i].city = Groups[k]
          /\ rows[(k - 1) * H + i].d = LastDate(Groups[k]) + i

C5ReadProcessWrite ==
    /\ Len(calls) <= Len(ExpectedCalls)
    /\ calls = SubSeq(ExpectedCalls, 1, Len(calls))
    /\ pc \in WriteStage => CompleteTable(fc_all)
    /\ pc \in {"check", "done"} => table.rows = fc_all
    /\ pc = "done" => calls = ExpectedCalls

C5Witness ==
    /\ pc = "done"
    /\ Len(Groups) = 2
    /\ Len(table.rows) = 2 * H

\* C6: a source without usable rows (empty, or only rows without a parsable date
\* or without a city) never reaches a group, the write stage or an error, and
\* leaves the destination as it was; the run can always go on until it exits
\* with status 0.  Any run that exits with status 0 has written nothing.
C6CleanExit ==
    /\ Usable = {} =>
          /\ pc \in {"start", "read", "loop", "exit0"}
          /\ pc = "loop" => todo = <<>> /\ results = <<>>
          /\ pc # "exit0" =>
                ENABLED (ReadSource \/ ExitNoRows \/ FilterDates \/ ExitNoResults)
          /\ \A i \in 1..Len(calls) : calls[i] = <<"query", "features">>
          /\ table = table0
    /\ pc = "exit0" =>
          /\ Usable = {}
          /\ \A i \in 1..Len(calls) : calls[i] = <<"query", "features">>
          /\ table = table0

C6Witness ==
    /\ pc = "exit0"
    /\ Len(source) = MaxRows
    /\ table.exists
    /\ Len(table.rows) > 0

\* C7 as stated: whatever the rows of the other cities are, a city B whose own
\* rows are well-formed has its own forecast rows, and only them, in the
\* destination when the run ends.
C7Isolation ==
    pc \in (Terminal \ {"exit0"}) =>
        \A b \in Cities :
            WellFormed(b) =>
                RowsOf(table.rows, b)
                    = Concat(<<Tag(ForecastCity(Prepare(ValidRows(b)), H, fit[b]), b)>>)

\* C8 as stated: the frame handed to forecast_city has one row for every day
\* of [min(date), max(date)] and no missing sessions, is_weekend or ma7_sessions.
Prepared == pc = "loop" /\ g # <<>>
PreparedCity == calls[Len(calls)][2]

DailySpan(c) ==
    /\ Len(g) = LastDate(c) - FirstDate(c) + 1
    /\ \A i \in 1..Len(g) : g[i].d = FirstDate(c) + i - 1

OrderedByCityDate(rows) ==
    \A i \in 1..(Len(rows) - 1) :
        \/ CityRank(rows[i].city) < CityRank(rows[i + 1].city)
        \/ rows[i].city = rows[i + 1].city /\ rows[i].d < rows[i + 1].d

C9Idempotent ==
    /\ pc = "done" =>
          /\ table.exists
          /\ table.rows = fc_all
          /\ Len(table.rows) = H * Cardinality(Usable)
          /\ OrderedByCityDate(table.rows)
          /\ \A i \in 1..Len(table.rows) : table.rows[i].model = MODEL
    /\ run = 2 /\ prev.pc = "done" /\ pc \in Terminal =>
          pc = "done" /\ table = prev.table

C9Witness ==
    /\ run = 2
    /\ pc = "done"
    /\ prev.pc = "done"
    /\ Cardinality(Usable) = 2
    /\ table = prev.table

\* C10: every row of the fallback path has yhat_lower <= yhat <= yhat_upper
\* after clipping, for a positive, a zero and a negative trailing mean.
C10FallbackOrdered ==
    \A c \in Processed :
        FitFails(c) =>
            \A i \in 1..Len(ResultRows(c)) :
                /\ Val(ResultRows(c)[i].yhat_lower) <= Val(ResultRows(c)[i].yhat)
                /\ Val(ResultRows(c)[i].yhat) <= Val(ResultRows(c)[i].yhat_upper)

C10Witness ==
    \E c \in Processed :
        /\ FitFails(c)
        /\ Ybar(c) < 0
        /\ Len(ResultRows(c)) = H
        /\ ResultRows(c)[1].yhat_lower = Num(0)
        /\ ResultRows(c)[1].yhat = Num(0)
        /\ ResultRows(c)[1].yhat_upper = Num(0)

====
